---- MODULE Spec2Model ----
(***************************************************************************)
(* A model of the ws-api serial link library (src/src/lib.rs and           *)
(* src/src/uart.rs): the COBS command codec, the millisecond timestamp     *)
(* conversion, the frame transport (send_message / receive_message) and    *)
(* the receiver side of the file transfer handshake (ftp).                 *)
(*                                                                         *)
(* The library is synchronous and single threaded: exactly one operation   *)
(* owns the serial port at a time.  Each operation is therefore modelled   *)
(* by a specification of its own (SpecCodec, SpecTime, SpecSend, SpecRecv, *)
(* SpecFtp) over the variables of that operation; the variables of the     *)
(* other operations keep their idle value.                                 *)
(***************************************************************************)
EXTENDS Integers, Sequences, FiniteSets, TLC

VARIABLES
    \* ---- codec (lib.rs) ----
    cpc,        \* position of the codec run: "cmd", "frame", "raw", "done"
    command,    \* the Command handed to to_bytes (NoCommand for a raw input)
    bytes,      \* the byte vector handed to from_bytes
    decoded,    \* what from_bytes produced
    \* ---- timestamp conversion (lib.rs) ----
    tpc,        \* position of the conversion run: "time", "bytes", "raw", "done", "rawdone"
    time,       \* the DateTime<Utc> handed to datetime_to_bytes
    tbytes,     \* the bytes handed to bytes_to_datetime
    tresult,    \* what bytes_to_datetime produced
    \* ---- send_message (uart.rs) ----
    spc,        \* position in send_message: "open", "write", "returned"
    scommand,   \* the Command to send
    swire,      \* the bytes the port accepted
    sresult,    \* what send_message returned
    \* ---- receive_message (uart.rs) ----
    rpc,        \* position in receive_message: "open", "loop", "decode", "returned", "panicked"
    rstream,    \* the bytes of the peer that the port has still to deliver
    rtimeout,   \* the caller's overall timeout, in ticks
    relapsed,   \* start_time.elapsed(), in ticks
    rdata,      \* the accumulation buffer `data`
    rioerr,     \* whether a read of this call reported an I/O failure
    rresults,   \* what the calls so far returned, oldest first
    \* ---- ftp (uart.rs) ----
    fpc,        \* position in ftp: "name", "ready", "data", "received", "sendhash",
                \* "hash", "verify", "retry", "success", "create", "write", "done"
    fraw,       \* the filename text as received (before it is sanitized)
    fname,      \* the variable file_name
    fdata,      \* the variable file_data
    fhash,      \* the filled part of hash_buffer
    ftokens,    \* the tokens write_all has written, oldest first
    ffs,        \* storage: the files created, as [name, content] records
    fioerr,     \* the stream operation that has failed: "none", "read", "write"
    fresult     \* what ftp returned

codecVars == <<cpc, command, bytes, decoded>>
timeVars == <<tpc, time, tbytes, tresult>>
sendVars == <<spc, scommand, swire, sresult>>
recvVars == <<rpc, rstream, rtimeout, relapsed, rdata, rioerr, rresults>>
ftpVars == <<fpc, fraw, fname, fdata, fhash, ftokens, ffs, fioerr, fresult>>
vars == <<codecVars, timeVars, sendVars, recvVars, ftpVars>>

\* what an operation leaves alone: the variables of the other operations
notCodec == <<timeVars, sendVars, recvVars, ftpVars>>
notTime == <<codecVars, sendVars, recvVars, ftpVars>>
notSend == <<codecVars, timeVars, recvVars, ftpVars>>
notRecv == <<codecVars, timeVars, sendVars, ftpVars>>
notFtp == <<codecVars, timeVars, sendVars, recvVars>>

(***************************************************************************)
(* Bounds of the model.                                                    *)
(***************************************************************************)
\* longest payload enumerated byte by byte
MaxData == 3
\* longest raw (not produced by to_bytes) input enumerated for from_bytes
MaxRaw == 4
\* number of adjacent non-zero base-256 digits of the sampled timestamps
MaxTimeDigits == 2
\* longest stream of bytes the peer sends to receive_message
MaxStream == 3
\* largest overall timeout a caller passes to receive_message, in ticks
MaxTimeout == 2
\* self.timeout, the longest a single port.read blocks, in ticks
ReadTicks == 2
\* number of receive_message calls on one stream
MaxCalls == 2
\* longest short chunk a read of ftp returns
MaxChunk == 2
\* most reads of one field of ftp that fill the whole buffer
MaxFullReads == 1

(***************************************************************************)
(* Bytes.  A u8 is a number in 0..255; inputs are drawn from a sample that *)
(* holds the delimiter 0, valid tags, invalid tags (8, 9, 255), and the    *)
(* COBS codes 1, 2, 3 and 255.                                             *)
(***************************************************************************)
U8 == 0..255
SampleBytes == {0, 1, 2, 7, 8, 255}
RawBytes == {0, 1, 2, 3, 9, 255}

SeqsUpTo(S, n) == UNION {[1..k -> S] : k \in 0..n}

\* vec![b; n]
Fill(b, n) == [i \in 1..n |-> b]

Last(s) == s[Len(s)]

\* bytes.iter().position(|&x| x == v): index (1-based) of the first v, 0 if none
Position(s, v) ==
    IF \E i \in 1..Len(s) : s[i] = v
    THEN CHOOSE i \in 1..Len(s) : s[i] = v /\ \A j \in 1..(i - 1) : s[j] # v
    ELSE 0

CountOf(s, v) == Cardinality({i \in 1..Len(s) : s[i] = v})

(***************************************************************************)
(* CommandType (lib.rs 11-36).                                             *)
(***************************************************************************)
CommandType ==
    {"Time", "StartupCommand", "Initialised", "PowerDown", "TimeAcknowledge",
     "StartupCommandAcknowledge", "InitialisedAcknowledge", "PowerDownAcknowledge"}

\* `command_type as u8`: the discriminants of the #[repr(u8)] enum
TypeAsU8(t) ==
    CASE t = "Time" -> 0
      [] t = "StartupCommand" -> 1
      [] t = "Initialised" -> 2
      [] t = "PowerDown" -> 3
      [] t = "TimeAcknowledge" -> 4
      [] t = "StartupCommandAcknowledge" -> 5
      [] t = "InitialisedAcknowledge" -> 6
      [] t = "PowerDownAcknowledge" -> 7

\* impl From<u8> for CommandType: the match arms 0..7; any other byte panics
Panic == "panic"
TypeFromU8(b) ==
    CASE b = 0 -> "Time"
      [] b = 1 -> "StartupCommand"
      [] b = 2 -> "Initialised"
      [] b = 3 -> "PowerDown"
      [] b = 4 -> "TimeAcknowledge"
      [] b = 5 -> "StartupCommandAcknowledge"
      [] b = 6 -> "InitialisedAcknowledge"
      [] b = 7 -> "PowerDownAcknowledge"
      [] OTHER -> Panic

\* Command::new
NewCommand(t, d) == [command_type |-> t, data |-> d]

(***************************************************************************)
(* cobs::encode_vec, as called by to_bytes.  The encoder keeps the run of  *)
(* non-zero bytes since the last code byte; a zero closes the run with the *)
(* code Len(run)+1, the 254th non-zero byte closes it with the code 0xFF,  *)
(* and finalize writes the code of the run that is open at the end.        *)
(***************************************************************************)
\* the code byte 0xFF: a block of 254 non-zero bytes not followed by a zero
CobsMaxCode == 255

\* EncoderState: the blocks written so far and the open run of non-zero bytes
EncStart == [out |-> <<>>, run |-> <<>>]

\* CobsEncoder::push of one byte
EncPush(st, b) ==
    IF b = 0
    THEN [out |-> (st.out \o <<Len(st.run) + 1>>) \o st.run, run |-> <<>>]
    ELSE LET r == Append(st.run, b) IN
         IF Len(r) + 1 = CobsMaxCode
         THEN [out |-> (st.out \o <<CobsMaxCode>>) \o r, run |-> <<>>]
         ELSE [out |-> st.out, run |-> r]

\* cobs::max_encoding_length: the size of the buffer encode_vec encodes into
max_encoding_length(n) ==
    n + (n \div (CobsMaxCode - 1)) + (IF n % (CobsMaxCode - 1) > 0 THEN 1 ELSE 0)

\* CobsEncoder::push of src[lo..hi], byte by byte in order; nothing is
\* written past the end of the buffer.  (The range is halved, and the state
\* after the lower half is computed before the upper half is entered.)
RECURSIVE EncPushRange(_, _, _, _)
EncPushRange(st, src, lo, hi) ==
    IF Len(st.out) + Len(st.run) >= max_encoding_length(Len(src)) \/ lo > hi THEN st
    ELSE IF lo = hi THEN EncPush(st, src[lo])
    ELSE LET mid == (lo + hi) \div 2 IN
         EncPushRange(EncPushRange(st, src, lo, mid), src, mid + 1, hi)

\* CobsEncoder::finalize: the code byte of the run that is still open
EncFinalize(st) == (st.out \o <<Len(st.run) + 1>>) \o st.run

\* encode_vec: encode into a buffer of max_encoding_length bytes and truncate
\* to what was written.  A code byte that falls outside the buffer (after a
\* final full block) is not written.
encode_vec(src) ==
    LET all == EncFinalize(EncPushRange(EncStart, src, 1, Len(src)))
        cap == max_encoding_length(Len(src))
    IN  IF src = <<>> THEN <<>>
        ELSE IF Len(all) > cap THEN SubSeq(all, 1, cap) ELSE all

(***************************************************************************)
(* cobs::decode_vec, as called by from_bytes: the decoder state machine    *)
(* (Idle, Grab(n), GrabChain(n)) fed with the source and then, when the    *)
(* source does not end in a zero, with one explicit zero sentinel.         *)
(***************************************************************************)
DecIdle == [mode |-> "Idle", n |-> 0]

\* DecoderState::feed: <<result, byte written, next state>>
DecFeed(st, b) ==
    CASE st.mode = "Idle" /\ b = 0 -> <<"NoData", 0, DecIdle>>
      [] st.mode = "Idle" /\ b = CobsMaxCode ->
            <<"NoData", 0, [mode |-> "GrabChain", n |-> CobsMaxCode - 1]>>
      [] st.mode = "Idle" /\ b \notin {0, CobsMaxCode} ->
            <<"NoData", 0, [mode |-> "Grab", n |-> b - 1]>>
      [] st.mode = "Grab" /\ st.n = 0 /\ b = 0 -> <<"DataComplete", 0, DecIdle>>
      [] st.mode = "Grab" /\ st.n = 0 /\ b = CobsMaxCode ->
            <<"DataContinue", 0, [mode |-> "GrabChain", n |-> CobsMaxCode - 1]>>
      [] st.mode = "Grab" /\ st.n = 0 /\ b \notin {0, CobsMaxCode} ->
            <<"DataContinue", 0, [mode |-> "Grab", n |-> b - 1]>>
      [] st.mode = "Grab" /\ st.n > 0 /\ b = 0 -> <<"Err", 0, DecIdle>>
      [] st.mode = "Grab" /\ st.n > 0 /\ b # 0 ->
            <<"DataContinue", b, [mode |-> "Grab", n |-> st.n - 1]>>
      [] st.mode = "GrabChain" /\ st.n = 0 /\ b = 0 -> <<"DataComplete", 0, DecIdle>>
      [] st.mode = "GrabChain" /\ st.n = 0 /\ b = CobsMaxCode ->
            <<"NoData", 0, [mode |-> "GrabChain", n |-> CobsMaxCode - 1]>>
      [] st.mode = "GrabChain" /\ st.n = 0 /\ b \notin {0, CobsMaxCode} ->
            <<"NoData", 0, [mode |-> "Grab", n |-> b - 1]>>
      [] st.mode = "GrabChain" /\ st.n > 0 /\ b = 0 -> <<"Err", 0, DecIdle>>
      [] st.mode = "GrabChain" /\ st.n > 0 /\ b # 0 ->
            <<"DataContinue", b, [mode |-> "GrabChain", n |-> st.n - 1]>>

\* CobsDecoder::feed of one byte into a decoder in progress; dest holds cap
\* bytes.  d = [res |-> "More" | "Complete" | "Err", out, st]; push stops
\* feeding at the first Complete or Err.
DecStart == [res |-> "More", out |-> <<>>, st |-> DecIdle]

DecStep(d, b, cap) ==
    IF d.res # "More" THEN d
    ELSE LET f == DecFeed(d.st, b) IN
         CASE f[1] = "Err" -> [d EXCEPT !.res = "Err", !.st = f[3]]
           [] f[1] = "NoData" -> [d EXCEPT !.st = f[3]]
           [] f[1] = "DataComplete" -> [d EXCEPT !.res = "Complete", !.st = f[3]]
           [] f[1] = "DataContinue" ->
                 IF Len(d.out) >= cap
                 THEN [d EXCEPT !.res = "Err", !.st = f[3]]
                 ELSE [d EXCEPT !.out = Append(d.out, f[2]), !.st = f[3]]

\* CobsDecoder::push of data[lo..hi], byte by byte in order
RECURSIVE DecPush(_, _, _, _, _)
DecPush(d, data, lo, hi, cap) ==
    IF d.res # "More" \/ lo > hi THEN d
    ELSE IF lo = hi THEN DecStep(d, data[lo], cap)
    ELSE LET mid == (lo + hi) \div 2 IN
         DecPush(DecPush(d, data, lo, mid, cap), data, mid + 1, hi, cap)

\* Result<Vec<u8>, ()>
DecErr == [ok |-> FALSE, vec |-> <<>>]
DecOk(v) == [ok |-> TRUE, vec |-> v]

decode_vec(source) ==
    LET first == DecPush(DecStart, source, 1, Len(source), Len(source)) IN
    CASE first.res = "Complete" -> DecOk(first.out)
      [] first.res = "Err" -> DecErr
      [] first.res = "More" ->
            IF source # <<>> /\ Last(source) = 0 THEN DecErr
            ELSE LET second == DecStep(first, 0, Len(source)) IN
                 IF second.res = "Complete" THEN DecOk(second.out) ELSE DecErr

(***************************************************************************)
(* Command::to_bytes and Command::from_bytes (lib.rs 159-194).             *)
(***************************************************************************)
\* to_bytes without the stuffing: the plain bytes and the terminator
to_bytes_unstuffed(c) == Append(<<TypeAsU8(c.command_type)>> \o c.data, 0)

to_bytes(c) ==
    LET plain == <<TypeAsU8(c.command_type)>> \o c.data IN
    Append(encode_vec(plain), 0)

\* Option<Command>, or the panic that unwinds out of from_bytes
NoneCommand == [kind |-> "None"]
SomeCommand(c) == [kind |-> "Some", command |-> c]
Panicked(at) == [kind |-> "Panic", at |-> at]

\* from_bytes that keeps the tag byte in the data (decoded[0..] for decoded[1..])
from_bytes_keeps_tag(bs) ==
    LET null_index == Position(bs, 0) IN
    IF null_index = 0 THEN NoneCommand
    ELSE LET r == decode_vec(SubSeq(bs, 1, null_index - 1)) IN
         IF ~r.ok THEN NoneCommand
         ELSE IF r.vec = <<>> THEN Panicked("decoded[0]")
         ELSE IF TypeFromU8(r.vec[1]) = Panic THEN Panicked("CommandType::from")
         ELSE SomeCommand(NewCommand(TypeFromU8(r.vec[1]), r.vec))

\* from_bytes that takes the end of the input for the terminator when there
\* is no 0x00 (position(..).unwrap_or(bytes.len()))
from_bytes_open_ended(bs) ==
    LET null_index == IF Position(bs, 0) = 0 THEN Len(bs) + 1 ELSE Position(bs, 0)
        r == decode_vec(SubSeq(bs, 1, null_index - 1))
    IN  IF ~r.ok THEN NoneCommand
        ELSE IF r.vec = <<>> THEN Panicked("decoded[0]")
        ELSE IF TypeFromU8(r.vec[1]) = Panic THEN Panicked("CommandType::from")
        ELSE SomeCommand(NewCommand(TypeFromU8(r.vec[1]), Tail(r.vec)))

from_bytes(bs) ==
    LET null_index == Position(bs, 0) IN
    IF null_index = 0 THEN NoneCommand
    ELSE LET r == decode_vec(SubSeq(bs, 1, null_index - 1)) IN
         IF ~r.ok THEN NoneCommand
         ELSE IF r.vec = <<>> THEN Panicked("decoded[0]")
         ELSE IF TypeFromU8(r.vec[1]) = Panic THEN Panicked("CommandType::from")
         ELSE SomeCommand(NewCommand(TypeFromU8(r.vec[1]), Tail(r.vec)))

(***************************************************************************)
(* Timestamps (lib.rs 60-85).  An i64 is kept as its sign and the eight    *)
(* base-256 digits of its magnitude, most significant first (the numbers   *)
(* of the model checker are narrower than 64 bits).  Zero is positive.     *)
(***************************************************************************)
\* size_of::<i64>(), the 8 of bytes[..8]
I64Bytes == 8

Zeros(n) == Fill(0, n)

I64(neg, mag) == [neg |-> neg, mag |-> mag]

\* 255 - b in every byte: the bitwise complement
Invert(bs) == [i \in 1..Len(bs) |-> 255 - bs[i]]

\* bs + 1 modulo 256^Len(bs), big-endian
RECURSIVE AddOne(_)
AddOne(bs) ==
    IF bs = <<>> THEN <<>>
    ELSE IF Last(bs) < 255 THEN [bs EXCEPT ![Len(bs)] = @ + 1]
    ELSE Append(AddOne(SubSeq(bs, 1, Len(bs) - 1)), 0)

\* the two's complement negation of an unsigned big-endian number
TwosNegate(bs) == AddOne(Invert(bs))

\* i64::to_be_bytes
to_be_bytes(t) == IF t.neg THEN TwosNegate(t.mag) ELSE t.mag

\* i64::from_be_bytes: the sign bit is the top bit of the first byte
from_be_bytes(bs) ==
    IF bs[1] >= 128 THEN I64(TRUE, TwosNegate(bs)) ELSE I64(FALSE, bs)

\* a < b for unsigned big-endian numbers of the same length
RECURSIVE LessBE(_, _)
LessBE(a, b) ==
    IF a = <<>> THEN FALSE
    ELSE IF Head(a) # Head(b) THEN Head(a) < Head(b)
    ELSE LessBE(Tail(a), Tail(b))

\* chrono's range of dates in milliseconds: +262143-12-31T23:59:59.999 is
\* 8210298412799999 ms, -262144-01-01T00:00:00 is -8334632937600000 ms
ChronoMaxMillis == <<0, 29, 43, 57, 16, 101, 23, 255>>
ChronoMinMillisMag == <<0, 29, 156, 77, 243, 148, 52, 0>>

\* Utc.timestamp_millis_opt(t) is a single date and time
InChronoRange(t) ==
    IF t.neg THEN ~LessBE(ChronoMinMillisMag, t.mag) ELSE ~LessBE(ChronoMaxMillis, t.mag)

\* DateTime<Utc>: the millisecond timestamp and the nanoseconds below it
DateTime(ms, sub) == [millis |-> ms, subnanos |-> sub]
NoTime == DateTime(I64(FALSE, Zeros(I64Bytes)), 0)

\* DateTime::timestamp_millis
timestamp_millis(dt) == dt.millis

\* datetime_to_bytes with the bytes in little-endian order (to_le_bytes)
datetime_to_bytes_le(dt) ==
    LET be == to_be_bytes(timestamp_millis(dt)) IN
    [i \in 1..Len(be) |-> be[Len(be) + 1 - i]]

\* datetime_to_bytes (lib.rs 60-63)
datetime_to_bytes(dt) == to_be_bytes(timestamp_millis(dt))

\* bytes_to_datetime (lib.rs 80-85): Some(DateTime), or the panic of
\* &bytes[..8] on a short slice, or the panic of unwrap() on a timestamp
\* outside chrono's range
TimePanicked(at) == [kind |-> "Panic", at |-> at]
TimeOk(dt) == [kind |-> "Ok", datetime |-> dt]
NoTimeResult == [kind |-> "None"]

bytes_to_datetime(bs) ==
    IF Len(bs) < I64Bytes THEN TimePanicked("bytes[..8]")
    ELSE LET t == from_be_bytes(SubSeq(bs, 1, I64Bytes)) IN
         IF InChronoRange(t) THEN TimeOk(DateTime(t, 0))
         ELSE TimePanicked("timestamp_millis_opt(time).unwrap()")

(***************************************************************************)
(* The frame transport (uart.rs 57-102).                                   *)
(***************************************************************************)
\* std::io::Result of send_message and receive_message
IoErr(at) == [kind |-> "Err", at |-> at]
IoOk(v) == [kind |-> "Ok", value |-> v]
NoResult == [kind |-> "none"]
Unwound == [kind |-> "Panic"]

\* send_message: `match port.write(&data) { Ok(_) => Ok(()), Err(e) => Err(e) }`
\* the number of bytes the port accepted is dropped
SendOutcome(accepted, frame) == IoOk("()")

\* the time-out test with the comparison the wrong way round
TimedOutReversed(elapsed, timeout) == elapsed < timeout

\* receive_message: `if start_time.elapsed() > timeout { break; }`
TimedOut(elapsed, timeout) == elapsed > timeout

\* receive_message: `let mut buffer = [0u8; 1]` after port.read returned
\* Ok(n): the byte read when n = 1, still the initial 0 when n = 0
BufferAfterRead(n, byte) == IF n = 1 THEN byte ELSE 0

\* a loop that takes the byte 1 for the terminator
EndsFrame_on_one(byte) == byte = 1

\* receive_message: `if byte == 0 { break; }`
EndsFrame(byte) == byte = 0

(***************************************************************************)
(* The file transfer (uart.rs 152-210): what ftp computes.                 *)
(***************************************************************************)
\* let mut buffer = [0; 1024];
BufLen == 1024
\* let mut hash_buffer = [0; 32];
HashLen == 32

\* the handshake tokens
READY_RECEIVE_FILE == "READY_RECEIVE_FILE"
RECEIVED_FILE_DATA == "RECEIVED_FILE_DATA"
SEND_FILE_HASH == "SEND_FILE_HASH"
RECEIVE_FILE_SUCCESS == "RECEIVE_FILE_SUCCESS"
RECEIVE_FILE_ERROR_RETRY == "RECEIVE_FILE_ERROR_RETRY"

Nul == 0
Slash == 47

\* std::str::from_utf8: every byte is ASCII, or a lead byte with its
\* continuation bytes, or a continuation byte of the lead before it
Utf8Need(b) ==
    CASE b >= 194 /\ b <= 223 -> 1
      [] b >= 224 /\ b <= 239 -> 2
      [] b >= 240 /\ b <= 244 -> 3
      [] OTHER -> 0

Utf8Cont(b) == b >= 128 /\ b <= 191

\* the second byte of a sequence, which excludes overlong forms, surrogates
\* and code points past U+10FFFF
Utf8Second(lead, b) ==
    CASE lead = 224 -> b >= 160 /\ b <= 191
      [] lead = 237 -> b >= 128 /\ b <= 159
      [] lead = 240 -> b >= 144 /\ b <= 191
      [] lead = 244 -> b >= 128 /\ b <= 143
      [] OTHER -> Utf8Cont(b)

from_utf8_ok(bs) ==
    \A i \in 1..Len(bs) :
        \/ bs[i] < 128
        \/ /\ Utf8Need(bs[i]) > 0
           /\ i + Utf8Need(bs[i]) <= Len(bs)
           /\ Utf8Second(bs[i], bs[i + 1])
           /\ \A j \in (i + 2)..(i + Utf8Need(bs[i])) : Utf8Cont(bs[j])
        \/ /\ Utf8Cont(bs[i])
           /\ \E k \in 1..3 :
                 /\ i - k >= 1
                 /\ Utf8Need(bs[i - k]) >= k
                 /\ \A j \in (i - k + 1)..(i - 1) : Utf8Cont(bs[j])

\* the length of s without the run of c at its end (searched from the end)
LenTrimmed(s, c) ==
    LET k == CHOOSE k \in 0..Len(s) :
                 /\ (k = Len(s) \/ s[Len(s) - k] # c)
                 /\ \A j \in (Len(s) - k + 1)..Len(s) : s[j] = c
    IN  Len(s) - k

\* str::trim_end_matches(char::from(0))
trim_end_matches(s, c) == SubSeq(s, 1, LenTrimmed(s, c))

\* the index of the last c in s, 0 if there is none (searched from the end)
LastIndexOf(s, c) ==
    LET k == CHOOSE k \in 0..Len(s) :
                 /\ (k = Len(s) \/ s[Len(s) - k] = c)
                 /\ \A j \in (Len(s) - k + 1)..Len(s) : s[j] # c
    IN  Len(s) - k

\* split in place of rsplit: what precedes the first '/'
split_first(s, c) == IF Position(s, c) = 0 THEN s ELSE SubSeq(s, 1, Position(s, c) - 1)

\* str::rsplit('/').next().unwrap(): what follows the last '/'
rsplit_first(s, c) == SubSeq(s, LastIndexOf(s, c) + 1, Len(s))

\* a sanitizer that trims the padding and keeps the directory path
Sanitize_keeps_path(name) == trim_end_matches(name, Nul)

\* file_name.trim_end_matches(char::from(0)).rsplit('/').next().unwrap()
Sanitize(name) == rsplit_first(trim_end_matches(name, Nul), Slash)

\* Sha256::digest(&file_data).  The digest is stood in for by a fixed
\* function of the body that gives HashLen bytes: ftp only compares it
\* with the bytes the peer sends.
RECURSIVE WeightedSum(_, _, _)
WeightedSum(data, lo, hi) ==
    IF lo > hi THEN 0
    ELSE IF lo = hi THEN (data[lo] + 1) * ((lo % 7) + 1)
    ELSE WeightedSum(data, lo, (lo + hi) \div 2) + WeightedSum(data, (lo + hi) \div 2 + 1, hi)

Sha256(data) ==
    LET w == WeightedSum(data, 1, Len(data)) IN
    [i \in 1..HashLen |-> (w * i + Len(data) + 31 * i) % 256]

\* a comparison of the first half of the digest only
HashMatches_prefix(hash_buffer, file_hash) ==
    SubSeq(hash_buffer, 1, HashLen \div 2) = SubSeq(file_hash, 1, HashLen \div 2)

\* `if hash_buffer != file_hash.as_slice()`, negated
HashMatches(hash_buffer, file_hash) == hash_buffer = file_hash

\* the order in which ftp writes its tokens before the verdict
HandshakeOrder == <<READY_RECEIVE_FILE, RECEIVED_FILE_DATA, SEND_FILE_HASH>>

\* File::create(&file_name) can succeed: the name is not empty, holds no
\* NUL and is no longer than a file name may be (255 bytes)
Creatable(name) ==
    /\ name # <<>>
    /\ Len(name) <= 255
    /\ \A i \in 1..Len(name) : name[i] # Nul

\* std::io::Error::new(ErrorKind::Other, ..) of ftp itself
FtpErr(what) == [kind |-> "Err", at |-> what]

(***************************************************************************)
(* The codec run: a command is built, encoded and decoded again; or a raw  *)
(* byte vector (as a lossy link may deliver it) is decoded.                *)
(***************************************************************************)
NoCommand == [command_type |-> "none", data |-> <<>>]

\* payloads that cross the 254 byte block of the stuffing
LongPayloads ==
    {Fill(b, n) \o t : b \in {1, 255}, n \in (CobsMaxCode - 3)..(CobsMaxCode + 1),
                       t \in {<<>>, <<0>>, <<7>>}}

Payloads == SeqsUpTo(SampleBytes, MaxData) \cup LongPayloads

RawInputs == SeqsUpTo(RawBytes, MaxRaw)

CodecInit ==
    /\ tpc = "idle" /\ time = NoTime /\ tbytes = <<>> /\ tresult = NoTimeResult
    /\ spc = "idle" /\ scommand = NoCommand /\ swire = <<>> /\ sresult = NoResult
    /\ rpc = "idle" /\ rstream = <<>> /\ rtimeout = 0 /\ relapsed = 0
    /\ rdata = <<>> /\ rioerr = FALSE /\ rresults = <<>>
    /\ fpc = "idle" /\ fraw = <<>> /\ fname = <<>> /\ fdata = <<>> /\ fhash = <<>>
    /\ ftokens = <<>> /\ ffs = {} /\ fioerr = "none" /\ fresult = NoResult
    /\ decoded = NoneCommand
    /\ \/ /\ cpc = "cmd"
          /\ \E t \in CommandType, d \in Payloads : command = NewCommand(t, d)
          /\ bytes = <<>>
       \/ /\ cpc = "raw"
          /\ command = NoCommand
          /\ bytes \in RawInputs

\* let bytes = command.to_bytes();
Encode ==
    /\ cpc = "cmd"
    /\ bytes' = to_bytes(command)
    /\ cpc' = "frame"
    /\ UNCHANGED <<command, decoded>>
    /\ UNCHANGED notCodec

\* let decoded = Command::from_bytes(bytes);
Decode ==
    /\ cpc \in {"frame", "raw"}
    /\ decoded' = from_bytes(bytes)
    /\ cpc' = IF cpc = "frame" THEN "done" ELSE "rawdone"
    /\ UNCHANGED <<command, bytes>>
    /\ UNCHANGED notCodec

CodecNext == Encode \/ Decode

SpecCodec == CodecInit /\ [][CodecNext]_vars

(***************************************************************************)
(* The conversion run: a DateTime is converted to bytes and back; or raw   *)
(* bytes (the data of a received Time command) are converted.              *)
(***************************************************************************)
TimeDigits == {0, 1, 127, 128, 255}

\* magnitudes with up to MaxTimeDigits adjacent non-zero digits at any place
SampleMagnitudes ==
    {(Zeros(I64Bytes - k - sh) \o d) \o Zeros(sh) :
        <<k, sh, d>> \in {<<k, sh, d>> \in (0..MaxTimeDigits) \X (0..I64Bytes) \X
                            SeqsUpTo(TimeDigits, MaxTimeDigits) :
                            Len(d) = k /\ k + sh <= I64Bytes}}

\* the timestamps of the model: every sampled magnitude with either sign,
\* 2026-11-02 in milliseconds, and the ends of chrono's range
SampleMillis ==
    {I64(n, m) : n \in BOOLEAN, m \in SampleMagnitudes \ {Zeros(I64Bytes)}}
    \cup {I64(FALSE, Zeros(I64Bytes)), I64(FALSE, <<0, 0, 1, 161, 154, 228, 16, 0>>),
          I64(FALSE, ChronoMaxMillis), I64(TRUE, ChronoMinMillisMag)}

RawTimeBytes ==
    SeqsUpTo({0, 255}, 3)
    \cup {Fill(b, n) : b \in {0, 127, 128, 255}, n \in (I64Bytes - 1)..(I64Bytes + 1)}

TimeInit ==
    /\ cpc = "idle" /\ command = NoCommand /\ bytes = <<>> /\ decoded = NoneCommand
    /\ spc = "idle" /\ scommand = NoCommand /\ swire = <<>> /\ sresult = NoResult
    /\ rpc = "idle" /\ rstream = <<>> /\ rtimeout = 0 /\ relapsed = 0
    /\ rdata = <<>> /\ rioerr = FALSE /\ rresults = <<>>
    /\ fpc = "idle" /\ fraw = <<>> /\ fname = <<>> /\ fdata = <<>> /\ fhash = <<>>
    /\ ftokens = <<>> /\ ffs = {} /\ fioerr = "none" /\ fresult = NoResult
    /\ tresult = NoTimeResult
    /\ \/ /\ tpc = "time"
          /\ \E ms \in {t \in SampleMillis : InChronoRange(t)}, sub \in {0, 999999} :
                time = DateTime(ms, sub)
          /\ tbytes = <<>>
       \/ /\ tpc = "raw"
          /\ time = NoTime
          /\ tbytes \in RawTimeBytes

\* let bytes = datetime_to_bytes(time);
DatetimeToBytes ==
    /\ tpc = "time"
    /\ tbytes' = datetime_to_bytes(time)
    /\ tpc' = "bytes"
    /\ UNCHANGED <<time, tresult>>
    /\ UNCHANGED notTime

\* let decoded_time = bytes_to_datetime(&bytes);
BytesToDatetime ==
    /\ tpc \in {"bytes", "raw"}
    /\ tresult' = bytes_to_datetime(tbytes)
    /\ tpc' = IF tpc = "bytes" THEN "done" ELSE "rawdone"
    /\ UNCHANGED <<time, tbytes>>
    /\ UNCHANGED notTime

TimeNext == DatetimeToBytes \/ BytesToDatetime

SpecTime == TimeInit /\ [][TimeNext]_vars

(***************************************************************************)
(* send_message (uart.rs 57-69): the command is encoded, the port is       *)
(* opened and configured, and the frame is handed to one port.write, which *)
(* accepts some or all of it or fails.                                     *)
(***************************************************************************)
SendInit ==
    /\ cpc = "idle" /\ command = NoCommand /\ bytes = <<>> /\ decoded = NoneCommand
    /\ tpc = "idle" /\ time = NoTime /\ tbytes = <<>> /\ tresult = NoTimeResult
    /\ rpc = "idle" /\ rstream = <<>> /\ rtimeout = 0 /\ relapsed = 0
    /\ rdata = <<>> /\ rioerr = FALSE /\ rresults = <<>>
    /\ fpc = "idle" /\ fraw = <<>> /\ fname = <<>> /\ fdata = <<>> /\ fhash = <<>>
    /\ ftokens = <<>> /\ ffs = {} /\ fioerr = "none" /\ fresult = NoResult
    /\ spc = "open"
    /\ \E t \in CommandType, d \in SeqsUpTo(SampleBytes, MaxData) : scommand = NewCommand(t, d)
    /\ swire = <<>>
    /\ sresult = NoResult

\* serial::open(&self.path)?, port.configure(..)?, port.set_timeout(..)? succeed
SendOpenOk ==
    /\ spc = "open"
    /\ spc' = "write"
    /\ UNCHANGED <<scommand, swire, sresult>>
    /\ UNCHANGED notSend

\* one of them fails: the error is returned
SendOpenErr ==
    /\ spc = "open"
    /\ spc' = "returned"
    /\ sresult' = IoErr("open")
    /\ UNCHANGED <<scommand, swire>>
    /\ UNCHANGED notSend

\* port.write(&data) returns Ok(n): the port accepted the first n bytes
SendWriteOk ==
    /\ spc = "write"
    /\ \E n \in 0..Len(to_bytes(scommand)) :
          /\ swire' = SubSeq(to_bytes(scommand), 1, n)
          /\ sresult' = SendOutcome(n, to_bytes(scommand))
    /\ spc' = "returned"
    /\ UNCHANGED scommand
    /\ UNCHANGED notSend

\* port.write(&data) returns Err(e)
SendWriteErr ==
    /\ spc = "write"
    /\ sresult' = IoErr("write")
    /\ spc' = "returned"
    /\ UNCHANGED <<scommand, swire>>
    /\ UNCHANGED notSend

SendNext == SendOpenOk \/ SendOpenErr \/ SendWriteOk \/ SendWriteErr

SpecSend == SendInit /\ [][SendNext]_vars

(***************************************************************************)
(* receive_message (uart.rs 81-102).  The peer's bytes wait in rstream;    *)
(* every port.read blocks between 1 and ReadTicks ticks and then returns   *)
(* Ok(1) with the next byte, Ok(0), or an error (a per-byte time-out or an *)
(* I/O failure).  The caller may call again after a call has returned.     *)
(***************************************************************************)
Streams == SeqsUpTo({0, 1, 2, 9}, MaxStream)

RecvInit ==
    /\ cpc = "idle" /\ command = NoCommand /\ bytes = <<>> /\ decoded = NoneCommand
    /\ tpc = "idle" /\ time = NoTime /\ tbytes = <<>> /\ tresult = NoTimeResult
    /\ spc = "idle" /\ scommand = NoCommand /\ swire = <<>> /\ sresult = NoResult
    /\ fpc = "idle" /\ fraw = <<>> /\ fname = <<>> /\ fdata = <<>> /\ fhash = <<>>
    /\ ftokens = <<>> /\ ffs = {} /\ fioerr = "none" /\ fresult = NoResult
    /\ rpc = "open"
    /\ rstream \in Streams
    /\ rtimeout \in 0..MaxTimeout
    /\ relapsed = 0
    /\ rdata = <<>>
    /\ rioerr = FALSE
    /\ rresults = <<>>

\* the caller calls receive_message(timeout) again
RecvCall ==
    /\ rpc = "returned"
    /\ Len(rresults) < MaxCalls
    /\ rpc' = "open"
    /\ rtimeout' \in 0..MaxTimeout
    /\ relapsed' = 0
    /\ rdata' = <<>>
    /\ rioerr' = FALSE
    /\ UNCHANGED <<rstream, rresults>>
    /\ UNCHANGED notRecv

\* serial::open(..)?, configure(..)?, set_timeout(..)? succeed;
\* let start_time = Instant::now(); let mut data = Vec::new();
RecvOpenOk ==
    /\ rpc = "open"
    /\ rpc' = "loop"
    /\ UNCHANGED <<rstream, rtimeout, relapsed, rdata, rioerr, rresults>>
    /\ UNCHANGED notRecv

\* one of them fails: the error is returned
RecvOpenErr ==
    /\ rpc = "open"
    /\ rpc' = "returned"
    /\ rresults' = Append(rresults, IoErr("open"))
    /\ UNCHANGED <<rstream, rtimeout, relapsed, rdata, rioerr>>
    /\ UNCHANGED notRecv

\* if start_time.elapsed() > timeout { break; }
RecvBreakOnTimeout ==
    /\ rpc = "loop"
    /\ TimedOut(relapsed, rtimeout)
    /\ rpc' = "decode"
    /\ UNCHANGED <<rstream, rtimeout, relapsed, rdata, rioerr, rresults>>
    /\ UNCHANGED notRecv

\* port.read(&mut buffer) returns Ok(1): data.push(byte); break on 0
RecvReadByte ==
    /\ rpc = "loop"
    /\ ~TimedOut(relapsed, rtimeout)
    /\ rstream # <<>>
    /\ \E d \in 1..ReadTicks : relapsed' = relapsed + d
    /\ rdata' = Append(rdata, BufferAfterRead(1, Head(rstream)))
    /\ rstream' = Tail(rstream)
    /\ rpc' = IF EndsFrame(BufferAfterRead(1, Head(rstream))) THEN "decode" ELSE "loop"
    /\ UNCHANGED <<rtimeout, rioerr, rresults>>
    /\ UNCHANGED notRecv

\* port.read(&mut buffer) returns Ok(0): nothing was read, and buffer[0]
\* is pushed all the same
RecvReadNothing ==
    /\ rpc = "loop"
    /\ ~TimedOut(relapsed, rtimeout)
    /\ \E d \in 1..ReadTicks : relapsed' = relapsed + d
    /\ rdata' = Append(rdata, BufferAfterRead(0, 0))
    /\ rpc' = IF EndsFrame(BufferAfterRead(0, 0)) THEN "decode" ELSE "loop"
    /\ UNCHANGED <<rstream, rtimeout, rioerr, rresults>>
    /\ UNCHANGED notRecv

\* port.read(&mut buffer) returns Err(TimedOut): no byte within self.timeout;
\* `if let Ok(..)` skips the error and the loop goes on
RecvReadTimedOut ==
    /\ rpc = "loop"
    /\ ~TimedOut(relapsed, rtimeout)
    /\ \E d \in 1..ReadTicks : relapsed' = relapsed + d
    /\ UNCHANGED <<rpc, rstream, rtimeout, rdata, rioerr, rresults>>
    /\ UNCHANGED notRecv

\* port.read(&mut buffer) returns another Err (the device is gone);
\* `if let Ok(..)` skips the error and the loop goes on
RecvReadIoError ==
    /\ rpc = "loop"
    /\ ~TimedOut(relapsed, rtimeout)
    /\ \E d \in 1..ReadTicks : relapsed' = relapsed + d
    /\ rioerr' = TRUE
    /\ UNCHANGED <<rpc, rstream, rtimeout, rdata, rresults>>
    /\ UNCHANGED notRecv

\* Ok(Command::from_bytes(data)), or the panic of from_bytes unwinds
RecvDecode ==
    /\ rpc = "decode"
    /\ IF from_bytes(rdata).kind = "Panic"
       THEN rpc' = "panicked" /\ rresults' = Append(rresults, Unwound)
       ELSE rpc' = "returned" /\ rresults' = Append(rresults, IoOk(from_bytes(rdata)))
    /\ UNCHANGED <<rstream, rtimeout, relapsed, rdata, rioerr>>
    /\ UNCHANGED notRecv

\* one iteration of the loop of receive_message
RecvLoop ==
    \/ RecvBreakOnTimeout \/ RecvReadByte \/ RecvReadNothing
    \/ RecvReadTimedOut \/ RecvReadIoError

RecvNext == RecvCall \/ RecvOpenOk \/ RecvOpenErr \/ RecvLoop \/ RecvDecode

SpecRecv == RecvInit /\ [][RecvNext]_vars

\* the thread that is inside the loop keeps running, and every port.read
\* returns (within self.timeout)
FairRecv == SpecRecv /\ WF_vars(RecvLoop)

(***************************************************************************)
(* ftp (uart.rs 152-210).  Every self.read opens the port and returns one  *)
(* chunk of at most BufLen bytes, or fails; every write_all hands a token  *)
(* to one port.write, whose count Write::write replaces by buf.len(), or   *)
(* fails.  (ErrorKind::Interrupted, which read_exact and write_all retry,  *)
(* changes nothing and is left out.)                                       *)
(***************************************************************************)
\* what one read of the filename returns
NameChunks ==
    SeqsUpTo({Nul, Slash, 97}, MaxChunk)
    \cup {<<255>>, [Fill(97, BufLen) EXCEPT ![BufLen] = Slash]}

\* what one read of the body returns
DataChunks == {Fill(b, n) : b \in {0, 1}, n \in 0..MaxChunk} \cup {Fill(1, BufLen)}

\* a read may fill the buffer only MaxFullReads times per field
MayRead(chunk, field) == Len(chunk) = BufLen => Len(field) < MaxFullReads * BufLen

\* a loop that also takes a read that fills the buffer for the last one
ShortRead_or_full(bytes_read) == bytes_read <= BufLen

\* `if bytes_read < buffer.len() { break; }`
ShortRead(bytes_read) == bytes_read < BufLen

\* the token written at a position of ftp, and the position that follows
TokenAt(pc) ==
    CASE pc = "ready" -> READY_RECEIVE_FILE
      [] pc = "received" -> RECEIVED_FILE_DATA
      [] pc = "sendhash" -> SEND_FILE_HASH
      [] pc = "retry" -> RECEIVE_FILE_ERROR_RETRY
      [] pc = "success" -> RECEIVE_FILE_SUCCESS

\* a hash check without its `return Err(..)`: after the retry token the
\* success path goes on
AfterToken_falls_through(pc) ==
    CASE pc = "ready" -> "data"
      [] pc = "received" -> "sendhash"
      [] pc = "sendhash" -> "hash"
      [] pc = "retry" -> "success"
      [] pc = "success" -> "create"

AfterToken(pc) ==
    CASE pc = "ready" -> "data"
      [] pc = "received" -> "sendhash"
      [] pc = "sendhash" -> "hash"
      [] pc = "retry" -> "done"
      [] pc = "success" -> "create"

FtpInit ==
    /\ cpc = "idle" /\ command = NoCommand /\ bytes = <<>> /\ decoded = NoneCommand
    /\ tpc = "idle" /\ time = NoTime /\ tbytes = <<>> /\ tresult = NoTimeResult
    /\ spc = "idle" /\ scommand = NoCommand /\ swire = <<>> /\ sresult = NoResult
    /\ rpc = "idle" /\ rstream = <<>> /\ rtimeout = 0 /\ relapsed = 0
    /\ rdata = <<>> /\ rioerr = FALSE /\ rresults = <<>>
    /\ fpc = "name"
    /\ fraw = <<>> /\ fname = <<>> /\ fdata = <<>> /\ fhash = <<>>
    /\ ftokens = <<>> /\ ffs = {} /\ fioerr = "none" /\ fresult = NoResult

\* the filename loop: bytes_read = self.read(&mut buffer)?;
\* file_name.push_str(from_utf8(&buffer[..bytes_read])?); break on a short
\* read; then the name is sanitized
FtpReadName ==
    /\ fpc = "name"
    /\ \E chunk \in NameChunks :
          /\ MayRead(chunk, fname)
          /\ IF ~from_utf8_ok(chunk)
             THEN /\ fpc' = "done"
                  /\ fresult' = FtpErr("from_utf8")
                  /\ UNCHANGED <<fraw, fname>>
             ELSE /\ fraw' = fraw \o chunk
                  /\ fname' = IF ShortRead(Len(chunk)) THEN Sanitize(fname \o chunk)
                                                          ELSE fname \o chunk
                  /\ fpc' = IF ShortRead(Len(chunk)) THEN "ready" ELSE "name"
                  /\ UNCHANGED fresult
    /\ UNCHANGED <<fdata, fhash, ftokens, ffs, fioerr>>
    /\ UNCHANGED notFtp

\* the body loop: file_data.extend_from_slice(&buffer[..bytes_read]); break
\* on a short read
FtpReadData ==
    /\ fpc = "data"
    /\ \E chunk \in DataChunks :
          /\ MayRead(chunk, fdata)
          /\ fdata' = fdata \o chunk
          /\ fpc' = IF ShortRead(Len(chunk)) THEN "received" ELSE "data"
    /\ UNCHANGED <<fraw, fname, fhash, ftokens, ffs, fresult, fioerr>>
    /\ UNCHANGED notFtp

\* self.read_exact(&mut hash_buffer)?: a read returns the next n bytes the
\* peer sends, which are those of the digest of the body or, for the last
\* of them, differ from them in the last byte
FtpReadHash ==
    /\ fpc = "hash"
    /\ \E n \in {HashLen - Len(fhash), HashLen \div 2}, bad \in BOOLEAN :
          /\ n <= HashLen - Len(fhash)
          /\ bad => Len(fhash) + n = HashLen
          /\ LET good == SubSeq(Sha256(fdata), Len(fhash) + 1, Len(fhash) + n)
                 sent == IF bad THEN [good EXCEPT ![n] = (@ + 1) % 256] ELSE good
             IN  fhash' = fhash \o sent
          /\ fpc' = IF Len(fhash) + n = HashLen THEN "verify" ELSE "hash"
    /\ UNCHANGED <<fraw, fname, fdata, ftokens, ffs, fresult, fioerr>>
    /\ UNCHANGED notFtp

\* read_exact: a read returns Ok(0) before the buffer is full
FtpReadHashEof ==
    /\ fpc = "hash"
    /\ fpc' = "done"
    /\ fresult' = IoErr("UnexpectedEof")
    /\ UNCHANGED <<fraw, fname, fdata, fhash, ftokens, ffs, fioerr>>
    /\ UNCHANGED notFtp

\* a failed read that is skipped, the way the loop of receive_message
\* skips it: the phase reads again
FtpReadFail_swallowed ==
    /\ fpc \in {"name", "data", "hash"}
    /\ fioerr' = "read"
    /\ UNCHANGED <<fpc, fraw, fname, fdata, fhash, ftokens, ffs, fresult>>
    /\ UNCHANGED notFtp

\* self.read(..)? fails (open, configure, set_timeout or port.read)
FtpReadFail ==
    /\ fpc \in {"name", "data", "hash"}
    /\ fpc' = "done"
    /\ fresult' = IoErr("read")
    /\ fioerr' = "read"
    /\ UNCHANGED <<fraw, fname, fdata, fhash, ftokens, ffs>>
    /\ UNCHANGED notFtp

\* self.write_all(token)?: port.write is Ok, and whatever count it gives,
\* Write::write reports the whole token written
FtpWriteToken ==
    /\ fpc \in {"ready", "received", "sendhash", "retry", "success"}
    /\ ftokens' = Append(ftokens, TokenAt(fpc))
    /\ fpc' = AfterToken(fpc)
    /\ fresult' = IF fpc = "retry" THEN FtpErr("File hash does not match") ELSE fresult
    /\ UNCHANGED <<fraw, fname, fdata, fhash, ffs, fioerr>>
    /\ UNCHANGED notFtp

\* self.write_all(token)? fails
FtpWriteTokenFail ==
    /\ fpc \in {"ready", "received", "sendhash", "retry", "success"}
    /\ fpc' = "done"
    /\ fresult' = IoErr("write")
    /\ fioerr' = "write"
    /\ UNCHANGED <<fraw, fname, fdata, fhash, ftokens, ffs>>
    /\ UNCHANGED notFtp

\* if hash_buffer != file_hash.as_slice() { .. }
FtpVerify ==
    /\ fpc = "verify"
    /\ fpc' = IF HashMatches(fhash, Sha256(fdata)) THEN "success" ELSE "retry"
    /\ UNCHANGED <<fraw, fname, fdata, fhash, ftokens, ffs, fresult, fioerr>>
    /\ UNCHANGED notFtp

\* let mut file = File::create(&file_name)?; succeeds: the file is there, empty
FtpCreate ==
    /\ fpc = "create"
    /\ Creatable(fname)
    /\ ffs' = {f \in ffs : f.name # fname} \cup {[name |-> fname, content |-> <<>>]}
    /\ fpc' = "write"
    /\ UNCHANGED <<fraw, fname, fdata, fhash, ftokens, fresult, fioerr>>
    /\ UNCHANGED notFtp

\* File::create(&file_name)? fails
FtpCreateFail ==
    /\ fpc = "create"
    /\ fpc' = "done"
    /\ fresult' = IoErr("create")
    /\ UNCHANGED <<fraw, fname, fdata, fhash, ftokens, ffs, fioerr>>
    /\ UNCHANGED notFtp

\* file.write_all(&file_data)?; Ok(())
FtpWriteFile ==
    /\ fpc = "write"
    /\ ffs' = {f \in ffs : f.name # fname} \cup {[name |-> fname, content |-> fdata]}
    /\ fpc' = "done"
    /\ fresult' = IoOk("()")
    /\ UNCHANGED <<fraw, fname, fdata, fhash, ftokens, fioerr>>
    /\ UNCHANGED notFtp

\* file.write_all(&file_data)? fails after part of the body was written
FtpWriteFileFail ==
    /\ fpc = "write"
    /\ \E k \in {0, Len(fdata) \div 2} :
          ffs' = {f \in ffs : f.name # fname}
                 \cup {[name |-> fname, content |-> SubSeq(fdata, 1, k)]}
    /\ fpc' = "done"
    /\ fresult' = IoErr("write file")
    /\ UNCHANGED <<fraw, fname, fdata, fhash, ftokens, fioerr>>
    /\ UNCHANGED notFtp

FtpNext ==
    \/ FtpReadName \/ FtpReadData \/ FtpReadHash \/ FtpReadHashEof \/ FtpReadFail
    \/ FtpWriteToken \/ FtpWriteTokenFail \/ FtpVerify
    \/ FtpCreate \/ FtpCreateFail \/ FtpWriteFile \/ FtpWriteFileFail

SpecFtp == FtpInit /\ [][FtpNext]_vars

(***************************************************************************)
(* Claims about the codec, checked under SpecCodec.                        *)
(***************************************************************************)

\* C1: for every CommandType and every payload (empty, with 0x00 bytes, and
\* longer than one stuffing block), from_bytes(to_bytes(Command::new(type,
\* data))) is a command with the same command_type and the same data.
C1_RoundTrip ==
    cpc = "done" =>
        /\ decoded.kind = "Some"
        /\ decoded.command.command_type = command.command_type
        /\ decoded.command.data = command.data

\* a payload with a 0x00 in it that is longer than one stuffing block has
\* been encoded and decoded
C1_Witness ==
    /\ cpc = "done"
    /\ Len(command.data) >= CobsMaxCode
    /\ Position(command.data, 0) > 0
    /\ decoded.kind = "Some"

\* C2: the frame to_bytes produces holds exactly one 0x00 byte, and it is
\* the last byte of the frame.
C2_OneZeroAtEnd ==
    cpc \in {"frame", "done"} =>
        /\ bytes # <<>>
        /\ Last(bytes) = 0
        /\ CountOf(bytes, 0) = 1
        /\ \A i \in 1..(Len(bytes) - 1) : bytes[i] # 0

\* a Time command (tag 0) whose payload holds 0x00 bytes has been encoded
C2_Witness ==
    /\ cpc = "frame"
    /\ command.command_type = "Time"
    /\ CountOf(command.data, 0) >= 2

\* the un-stuffed bytes of the region before the first 0x00 of the input
Unstuffed(bs) ==
    IF Position(bs, 0) = 0 THEN DecErr
    ELSE decode_vec(SubSeq(bs, 1, Position(bs, 0) - 1))

\* the input is a frame whose un-stuffed tag byte is 8 or greater
HasUnknownTag(bs) ==
    /\ Unstuffed(bs).ok
    /\ Unstuffed(bs).vec # <<>>
    /\ Unstuffed(bs).vec[1] >= 8

\* C3: decoding a frame whose un-stuffed tag byte is 8 or greater returns
\* the absence of a command and does not panic.
C3_UnknownTypeIsNone ==
    (cpc = "rawdone" /\ HasUnknownTag(bytes)) => decoded = NoneCommand

CarryInto(a, b, i) ==
    LET RECURSIVE carry(_)
        carry(j) == IF j > Len(a) THEN 0 ELSE (a[j] + b[j] + carry(j + 1)) \div 256
    IN  carry(i + 1)

SumBE(a, b) == [i \in 1..Len(a) |-> (a[i] + b[i] + CarryInto(a, b, i)) % 256]

\* bs is the 64-bit two's complement of t, most significant byte first
IsTwosComplementBE(bs, t) ==
    /\ Len(bs) = 8
    /\ \A i \in 1..8 : bs[i] \in U8
    /\ IF t.neg THEN SumBE(bs, t.mag) = Zeros(8) /\ bs[1] >= 128
                ELSE bs = t.mag /\ bs[1] < 128

\* C10: for every millisecond timestamp t in chrono's range (negative, zero,
\* positive), datetime_to_bytes gives exactly 8 bytes, the big-endian two's
\* complement of t, and bytes_to_datetime of them has the timestamp t.
C10_TimestampRoundTrip ==
    /\ tpc \in {"bytes", "done"} => IsTwosComplementBE(tbytes, timestamp_millis(time))
    /\ tpc = "done" =>
          /\ tresult.kind = "Ok"
          /\ timestamp_millis(tresult.datetime) = timestamp_millis(time)

\* a negative timestamp with a borrow across bytes (-256: FF .. FF 00) has
\* gone through both conversions
C10_Witness ==
    /\ tpc = "done"
    /\ timestamp_millis(time) = I64(TRUE, <<0, 0, 0, 0, 0, 0, 1, 0>>)
    /\ tbytes = <<255, 255, 255, 255, 255, 255, 255, 0>>
    /\ tresult.kind = "Ok"

(***************************************************************************)
(* Claims about the frame transport, checked under SpecSend, SpecRecv and  *)
(* FairRecv.                                                               *)
(***************************************************************************)

\* C7: the receive loop of receive_message always ends, whatever the peer
\* does (no terminator ever, nothing at all), given that every port.read
\* returns within its own time-out and the clock advances: a call that is
\* in the loop leaves it; the loop never runs for more than the overall timeout
\* plus one per-byte time-out; and it is left only after a 0x00 has been
\* appended or the overall timeout has elapsed.
C7_ReceiveLoopEnds ==
    /\ (rpc = "loop") ~> (rpc = "decode")
    /\ [](rpc = "loop" => relapsed <= rtimeout + ReadTicks)
    /\ [][(rpc = "loop" /\ rpc' # "loop") =>
            /\ rpc' = "decode"
            /\ \/ relapsed > rtimeout
               \/ (rdata' # <<>> /\ Last(rdata') = 0)]_vars

\* a call has returned by the overall timeout while the peer was still
\* sending and had sent no terminator
C7_Witness ==
    /\ rpc = "returned"
    /\ Len(rdata) >= 2
    /\ Position(rdata, 0) = 0
    /\ rstream # <<>>
    /\ relapsed > rtimeout

\* C8: an I/O failure that a port.read reports inside the receive loop is
\* returned to the caller of receive_message as an error.
C8_ReadFailurePropagates ==
    (rpc \in {"returned", "panicked"} /\ rioerr) => Last(rresults).kind = "Err"

\* C9: when send_message returns Ok, the port has accepted the complete
\* frame, terminator included.
C9_OkMeansWholeFrame ==
    (spc = "returned" /\ sresult.kind = "Ok") => swire = to_bytes(scommand)

(***************************************************************************)
(* Claims about the file transfer.                                         *)
(***************************************************************************)
\* name is raw without its trailing NUL padding and without everything up
\* to its last '/'
IsStripped(raw, name) ==
    /\ \A i \in 1..Len(name) : name[i] # Slash
    /\ \E z \in 0..(Len(raw) - Len(name)) :
          LET e == Len(raw) - z
              b == e - Len(name)
          IN  /\ e = 0 \/ raw[e] # Nul
              /\ b = 0 \/ raw[b] = Slash
              /\ \A j \in (e + 1)..Len(raw) : raw[j] = Nul
              /\ SubSeq(raw, b + 1, e) = name

\* the 32 hash bytes have been received and are the digest of the body
DigestCorrect == Len(fhash) = HashLen /\ fhash = Sha256(fdata)

\* the 32 hash bytes have been received and differ from the digest
DigestWrong == Len(fhash) = HashLen /\ fhash # Sha256(fdata)

C6_MismatchRejected ==
    DigestWrong =>
        /\ ffs = {}
        /\ \A i \in 1..Len(ftokens) : ftokens[i] # RECEIVE_FILE_SUCCESS
        /\ fpc = "done" =>
              /\ fresult.kind = "Err"
              /\ \/ /\ fresult.at = "File hash does not match"
                    /\ ftokens = HandshakeOrder \o <<RECEIVE_FILE_ERROR_RETRY>>
                 \/ /\ fresult.at = "write"
                    /\ ftokens = HandshakeOrder

\* a transfer of a non-empty body whose last hash byte was wrong has ended
\* with the retry token and the mismatch error
C6_Witness ==
    /\ fpc = "done"
    /\ DigestWrong
    /\ fdata # <<>>
    /\ SubSeq(fhash, 1, HashLen - 1) = SubSeq(Sha256(fdata), 1, HashLen - 1)
    /\ Last(ftokens) = RECEIVE_FILE_ERROR_RETRY
    /\ fresult = FtpErr("File hash does not match")
    /\ ffs = {}

(***************************************************************************)
(* More claims about timestamps.                                           *)
(***************************************************************************)
\* C11: bytes_to_datetime of fewer than 8 bytes returns an error value
\* (InvalidTimestamp) and does not panic.
C11_ShortInputIsError ==
    (tpc = "rawdone" /\ Len(tbytes) < I64Bytes) =>
        /\ tresult.kind # "Panic"
        /\ tresult.kind = "Err"

(***************************************************************************)
(* More claims about receive_message.                                      *)
(***************************************************************************)
\* C12: the bytes a call has taken from the stream when it returns without
\* a terminator (it ended by the overall timeout) are still in the
\* accumulation buffer when the caller calls again, so the next call goes
\* on with them.
C12_BytesSurviveTimeout ==
    [][(/\ rpc = "returned" /\ rpc' = "open"
        /\ rdata # <<>> /\ Position(rdata, 0) = 0) => rdata' = rdata]_vars

\* C13: the stream gives up one byte at a time, and only to a buffer that
\* holds no 0x00; inside the loop the buffer holds no 0x00, and the buffer
\* handed to from_bytes holds at most one, at its end.
C13_StopsAtTerminator ==
    /\ [][rstream' # rstream =>
            /\ rstream' = Tail(rstream)
            /\ Len(rdata') = Len(rdata) + 1
            /\ Position(rdata, 0) = 0]_vars
    /\ [](rpc = "loop" => Position(rdata, 0) = 0)
    /\ [](rpc \in {"decode", "returned", "panicked"} =>
            /\ CountOf(rdata, 0) <= 1
            /\ CountOf(rdata, 0) = 1 => Last(rdata) = 0)

\* a call has returned with a terminated buffer while bytes that follow the
\* terminator are still in the stream
C13_Witness ==
    /\ rpc = "returned"
    /\ Len(rdata) >= 2
    /\ Last(rdata) = 0
    /\ CountOf(rdata, 0) = 1
    /\ rstream # <<>>

(***************************************************************************)
(* More claims about the codec.                                            *)
(***************************************************************************)
\* the stuffed region of the input is empty, or un-stuffs to no byte at all
EmptyRegion(bs) ==
    /\ bs # <<>>
    /\ \/ bs[1] = 0
       \/ Unstuffed(bs).ok /\ Unstuffed(bs).vec = <<>>

\* C14: decoding an input whose first byte is 0x00, or whose stuffed region
\* un-stuffs to zero bytes, returns the absence of a command and does not
\* panic.
C14_EmptyRegionIsNone ==
    (cpc = "rawdone" /\ EmptyRegion(bytes)) => decoded = NoneCommand

(***************************************************************************)
(* More claims about the file transfer.                                    *)
(***************************************************************************)
\* C15: once a read from or a write to the stream has failed, ftp has
\* returned that error, storage holds no file, and no token is written in
\* the failing step or after it.
C15_StreamErrorPropagates ==
    /\ [](fioerr # "none" =>
            /\ fpc = "done"
            /\ fresult.kind = "Err"
            /\ fresult.at = fioerr
            /\ ffs = {})
    /\ [][fioerr' # "none" => ftokens' = ftokens]_vars

\* a read of the hash has failed after a body was received and the three
\* tokens were written
C15_Witness ==
    /\ fioerr = "read"
    /\ fpc = "done"
    /\ fdata # <<>>
    /\ ftokens = HandshakeOrder
    /\ fresult.kind = "Err"

\* field has grown by one read of n bytes, appended at its end
Grew(field, field2, n) ==
    /\ Len(field2) = Len(field) + n
    /\ SubSeq(field2, 1, Len(field)) = field

\* C16: while the filename or the body is being read the field holds whole
\* buffers only and the token that follows the field is not written; a read
\* that fills the buffer keeps the phase, writes no token and is followed by
\* another read; the phase is left for the next one only by a read of fewer
\* than 1024 bytes, which are appended to the same field.
C16_ExactMultipleIsIncomplete ==
    /\ [](fpc = "name" => Len(fraw) % BufLen = 0 /\ ftokens = <<>>)
    /\ [](fpc = "data" => Len(fdata) % BufLen = 0 /\ ftokens = <<READY_RECEIVE_FILE>>)
    /\ [][/\ (fpc = "name" /\ Grew(fraw, fraw', BufLen)) =>
               fpc' = "name" /\ ftokens' = ftokens
          /\ (fpc = "data" /\ Grew(fdata, fdata', BufLen)) =>
               fpc' = "data" /\ ftokens' = ftokens
          /\ (fpc = "name" /\ fpc' \notin {"name", "done"}) =>
               /\ fpc' = "ready"
               /\ \E n \in 0..(BufLen - 1) : Grew(fraw, fraw', n)
          /\ (fpc = "data" /\ fpc' \notin {"data", "done"}) =>
               /\ fpc' = "received"
               /\ \E n \in 0..(BufLen - 1) : Grew(fdata, fdata', n)]_vars

\* a filename and a body have each come as one full buffer and a later short
\* read, and the body is complete
C16_Witness ==
    /\ fpc = "sendhash"
    /\ Len(fraw) > BufLen
    /\ Len(fdata) = BufLen + 2
    /\ ftokens = <<READY_RECEIVE_FILE, RECEIVED_FILE_DATA>>

\* C17: once the filename field has been read, file_name is the received
\* text without its trailing NULs, cut down to what follows its last '/':
\* it holds no '/', does not end in a NUL, and is the received text without
\* the trailing NULs when that holds no '/'; a file is only ever created
\* under that name.
C17_PersistedNameIsSanitized ==
    /\ (fpc = "ready" \/ ftokens # <<>>) =>
          /\ IsStripped(fraw, fname)
          /\ Position(fname, Slash) = 0
          /\ fname = <<>> \/ Last(fname) # Nul
          /\ Position(fraw, Slash) = 0 =>
                fraw = fname \o Fill(Nul, Len(fraw) - Len(fname))
    /\ \A f \in ffs : f.name = fname

\* a file has been stored under the last segment of a filename that came in
\* two reads and holds two '/'
C17_Witness ==
    /\ fpc = "done"
    /\ Len(fraw) > BufLen
    /\ CountOf(fraw, Slash) = 2
    /\ \E f \in ffs : f.name = <<97>>

\* the tokens that end a session
TerminalTokens == {RECEIVE_FILE_SUCCESS, RECEIVE_FILE_ERROR_RETRY}

\* C18: the tokens written so far are the first tokens of
\* READY_RECEIVE_FILE, RECEIVED_FILE_DATA, SEND_FILE_HASH, or all three and
\* then one terminal token; no token occurs twice; tokens are only ever
\* appended, one at a time, and none after a terminal token.
C18_TokenSequence ==
    /\ [](\/ \E k \in 0..Len(HandshakeOrder) : ftokens = SubSeq(HandshakeOrder, 1, k)
          \/ \E t \in TerminalTokens : ftokens = Append(HandshakeOrder, t))
    /\ [](\A i, j \in 1..Len(ftokens) : ftokens[i] = ftokens[j] => i = j)
    /\ [][ftokens' # ftokens =>
            /\ Len(ftokens') = Len(ftokens) + 1
            /\ SubSeq(ftokens', 1, Len(ftokens)) = ftokens
            /\ \A i \in 1..Len(ftokens) : ftokens[i] \notin TerminalTokens]_vars

\* a session for a named file has ended with the three tokens followed by
\* the retry token
C18_Witness ==
    /\ fpc = "done"
    /\ fname # <<>>
    /\ ftokens = Append(HandshakeOrder, RECEIVE_FILE_ERROR_RETRY)
    /\ fresult.kind = "Err"

\* C19: when a session has ended and RECEIVE_FILE_SUCCESS was written,
\* storage holds the file of the sanitized name with the whole body.
C19_SuccessMeansPersisted ==
    (/\ fpc = "done"
     /\ \E i \in 1..Len(ftokens) : ftokens[i] = RECEIVE_FILE_SUCCESS) =>
        [name |-> fname, content |-> fdata] \in ffs

(***************************************************************************)
(* More claims about the bytes receive_message accumulates.                *)
(***************************************************************************)
\* C20: inside the loop the accumulation buffer changes only by taking the
\* next byte of the stream and appending that byte; a read that delivers
\* nothing leaves the buffer as it is.
C20_OnlyDeliveredBytes ==
    [][(rpc = "loop" /\ rdata' # rdata) =>
          /\ rstream # <<>>
          /\ rdata' = Append(rdata, Head(rstream))
          /\ rstream' = Tail(rstream)]_vars

====
